---- MODULE Spec2Model ----
(***************************************************************************)
(* Model of the installer bundling scripts:                                *)
(*   build/silent_installer.py          the install-time sequencer         *)
(*   build/create_bundled_installer.py  the bundler, its embedded copy of  *)
(*                                      the sequencer and the NSIS wrapper *)
(*   extract_repackage_installer.py     RepackageTool                      *)
(* File names are sequences of one-character strings so that glob matching *)
(* and str.split are computed as Python computes them.                     *)
(***************************************************************************)
EXTENDS Integers, Sequences, FiniteSets, TLC

\* ------------------------------------------------------------------ bounds
MaxExitCode == 2
\* how many times in a row the bundler is run in the same directories
MaxRuns == 2

\* -------------------------------------------------------- literal strings
APP_NAME == <<"S","C","R","M"," ","C","h","a","m","p","i","o","n","-","v","4",".","8","5",".","1","-","w","i","n","3","2","-","x","6","4",".","e","x","e">>
SDK_NAME == <<"w","i","n","s","d","k","s","e","t","u","p",".","e","x","e">>
EMB_NAME == <<"S","C","R","M","_","C","h","a","m","p","i","o","n",".","e","x","e">>
PRODUCT_PREFIX == <<"S","C","R","M"," ","C","h","a","m","p","i","o","n","-">>
WIN_TOKEN == <<"-","w","i","n">>
LATEST == <<"l","a","t","e","s","t">>
OUT_SUFFIX == <<"-","w","i","t","h","-","S","D","K","-","w","i","n","3","2","-","x","6","4",".","e","x","e">>
SCRM_GLOB == <<"*","S","C","R","M","*","C","h","a","m","p","i","o","n","*",".","e","x","e">>
SDK_GLOB == <<"*","w","i","n","s","d","k","s","e","t","u","p","*",".","e","x","e">>
SILENT_FLAGS == <<"/quiet", "/norestart">>

\* File names used as inputs (they are not in the source).
TWICE_NAME == <<"S","C","R","M"," ","C","h","a","m","p","i","o","n","-","S","C","R","M"," ","C","h","a","m","p","i","o","n","-","1","-","w","i","n",".","e","x","e">>
NOWIN_NAME == <<"S","C","R","M"," ","C","h","a","m","p","i","o","n","-","2",".","e","x","e">>
OTHER_NAME == <<"s","e","t","u","p",".","e","x","e">>
CUSTOM_OUT == <<"S","C","R","M"," ","C","h","a","m","p","i","o","n","-","w","i","t","h","-","S","D","K",".","e","x","e">>

\* Python's None, and a path <<directory, file name>>.
None == << >>
PathOf(dir, name) == <<dir, name>>
ParentOf(p) == p[1]
NameOf(p) == p[2]

\* ---------------------------------------------------------- str helpers
\* s[i:i+len(sub)] == sub
OccursAt(sub, s, i) ==
    /\ i >= 1
    /\ i + Len(sub) - 1 <= Len(s)
    /\ SubSeq(s, i, i + Len(sub) - 1) = sub

\* str.find: the first index >= from where sub occurs in s, 0 when there is none
RECURSIVE StrFind(_, _, _)
StrFind(sub, s, from) ==
    IF from + Len(sub) - 1 > Len(s) THEN 0
    ELSE IF OccursAt(sub, s, from) THEN from
    ELSE StrFind(sub, s, from + 1)

\* sub in s
StrContains(sub, s) == StrFind(sub, s, 1) # 0

\* str.split(sep): the pieces between the non-overlapping occurrences of sep
RECURSIVE StrSplit(_, _)
StrSplit(s, sep) ==
    LET i == StrFind(sep, s, 1)
    IN IF i = 0 THEN <<s>>
       ELSE <<SubSeq(s, 1, i - 1)>> \o StrSplit(SubSeq(s, i + Len(sep), Len(s)), sep)

\* Path.glob on one name: "*" matches any run of characters
RECURSIVE GlobMatch(_, _)
GlobMatch(pat, s) ==
    IF pat = << >> THEN s = << >>
    ELSE IF Head(pat) = "*"
         THEN GlobMatch(Tail(pat), s) \/ (s # << >> /\ GlobMatch(pat, Tail(s)))
         ELSE s # << >> /\ Head(s) = Head(pat) /\ GlobMatch(Tail(pat), Tail(s))

\* decimal text of a non-negative integer (NSIS stores exit codes as text)
RECURSIVE IntToText(_)
IntToText(n) ==
    LET d == <<"0","1","2","3","4","5","6","7","8","9">>[(n % 10) + 1]
    IN IF n < 10 THEN <<d>> ELSE IntToText(n \div 10) \o <<d>>

\* ------------------------------------------------------------------ state
VARIABLES
    prog,        \* which script runs in this behaviour
    pc,          \* its position
    args,        \* its inputs (command-line arguments, keyword arguments)
    files,       \* the files that exist, as paths <<directory, name>>
    ws,          \* each temporary directory: "absent", "present", "removed", "leftover"
    calls,       \* the child processes started so far, in order
    ret,         \* "none" while running, "0"/"1" returned, "raised" when an exception left main
    raisedAt,    \* the steps of this run that raised an exception
    reg0,        \* NSIS register $0 (text)
    loc,         \* main's locals scrm_path, sdk_path, output_path, result
    outParts,    \* what this run has written to output_path, in order
    reg1,        \* NSIS register $1 (text)
    hist         \* the number of this run and what the previous run used

vars == <<prog, pc, args, files, ws, calls, ret, raisedAt, reg0, loc, outParts, reg1, hist>>

ExitCodes == 0..MaxExitCode

\* prefixes given to tempfile.mkdtemp, and the wrapper's $INSTDIR
WsNames == {"scrm_champion_installer_", "bundler_", "nsis_bundler_",
            "scrm_extract_", "nsis_direct_", "SCRM_Champion_Installer_"}

SequencerProgs == {"silent_installer", "embedded_installer", "fallback_script"}

\* the application installer the sequencer looks for next to itself
SeqScrmName == IF prog = "silent_installer" THEN APP_NAME ELSE EMB_NAME
SeqWsName == "scrm_champion_installer_"

NoArgs == [scrm_installer |-> None, sdk_installer |-> None, output |-> None,
           nsis |-> FALSE, silent_sdk |-> FALSE]

\* ------------------------------------------------- workspace management
\* tempfile.mkdtemp(prefix=w) succeeded
Mkdtemp(w) == [ws EXCEPT ![w] = "present"]

\* the finally block: shutil.rmtree inside try/except Exception; ok is whether
\* rmtree succeeded.  A failure is logged and swallowed, the directory stays.
CleanupMutant(w, ok) == ws
Cleanup(w, ok) == [ws EXCEPT ![w] = IF ok THEN "removed" ELSE "leftover"]

\* the files left after the removal of workspace w
FilesAfterCleanup(w, ok) == IF ok THEN {f \in files : ParentOf(f) # w} ELSE files

\* ------------------------------------------------ running an installer
\* run_installer builds cmd = [path] (+ /quiet /norestart when silent)
RunInstallerCmdMutant(path, silent) ==
    [tool |-> "installer", path |-> path, flags |-> << >>,
     status |-> "running", code |-> 0]
RunInstallerCmd(path, silent) ==
    [tool |-> "installer", path |-> path,
     flags |-> IF silent THEN SILENT_FLAGS ELSE << >>,
     status |-> "running", code |-> 0]

\* the last child process ends with the given status
EndLast(status, code) ==
    [calls EXCEPT ![Len(calls)] = [@ EXCEPT !.status = status, !.code = code]]

\* ------------------------------------- silent_installer.main (sequencer)
\* The same code is written out by create_python_bundler as the embedded
\* silent_installer.py; only the application installer's name differs.

\* return r through the finally block of main
SeqReturnMutant(r, terminal, rmOk) ==
    /\ ret' = r
    /\ pc' = terminal
    /\ ws' = ws
SeqReturn(r, terminal, rmOk) ==
    /\ ret' = r
    /\ pc' = terminal
    /\ ws' = Cleanup(SeqWsName, rmOk)

\* (variant: create_temp_dir called inside the try block)
SeqCreateTempDirMutant ==
    /\ prog \in SequencerProgs
    /\ pc = "Start"
    /\ \/ /\ ws' = Mkdtemp(SeqWsName)
          /\ pc' = "Created"
          /\ UNCHANGED <<ret, raisedAt>>
       \/ /\ raisedAt' = raisedAt \cup {"mkdtemp"}
          /\ ret' = "1"
          /\ pc' = "Aborted"
          /\ UNCHANGED ws
    /\ UNCHANGED <<prog, args, hist, reg1, loc, outParts, files, calls, reg0>>

\* temp_dir = Path(create_temp_dir()), before the try block
SeqCreateTempDir ==
    /\ prog \in SequencerProgs
    /\ pc = "Start"
    /\ \/ /\ ws' = Mkdtemp(SeqWsName)
          /\ pc' = "Created"
          /\ UNCHANGED <<ret, raisedAt>>
       \/ /\ raisedAt' = raisedAt \cup {"mkdtemp"}
          /\ ret' = "raised"
          /\ pc' = "Aborted"
          /\ UNCHANGED ws
    /\ UNCHANGED <<prog, args, hist, reg1, loc, outParts, files, calls, reg0>>

\* if not scrm_installer.exists(): ... return 1
\* if not sdk_installer.exists(): ... return 1
SeqInstallersMissingMutant ==
    PathOf("script", SeqScrmName) \notin files
SeqInstallersMissing ==
    \/ PathOf("script", SeqScrmName) \notin files
    \/ PathOf("script", SDK_NAME) \notin files

\* the existence checks and the two shutil.copy2 calls
SeqStage ==
    /\ prog \in SequencerProgs
    /\ pc = "Created"
    /\ \E rmOk \in BOOLEAN, copied \in 0..2 :
         IF SeqInstallersMissing
         THEN /\ SeqReturn("1", "Aborted", rmOk)
              /\ files' = FilesAfterCleanup(SeqWsName, rmOk)
              /\ raisedAt' = raisedAt \cup (IF rmOk THEN {} ELSE {"rmtree"})
         ELSE IF copied = 2
         THEN /\ files' = files \cup {PathOf(SeqWsName, SeqScrmName),
                                      PathOf(SeqWsName, SDK_NAME)}
              /\ pc' = "Staged"
              /\ UNCHANGED <<ws, ret, raisedAt>>
         ELSE \* a copy raised: except Exception, return 1
              /\ SeqReturn("1", "Aborted", rmOk)
              /\ files' = IF rmOk THEN files
                          ELSE files \cup {PathOf(SeqWsName, SeqScrmName) : i \in 1..copied}
              /\ raisedAt' = raisedAt \cup {"copy"} \cup (IF rmOk THEN {} ELSE {"rmtree"})
    /\ UNCHANGED <<prog, args, hist, reg1, loc, outParts, calls, reg0>>

\* run_installer(temp_scrm): subprocess.run starts the child or raises
SeqLaunchFirst ==
    /\ prog \in SequencerProgs
    /\ pc = "Staged"
    /\ \E started \in BOOLEAN, rmOk \in BOOLEAN :
         IF started
         THEN /\ calls' = Append(calls, RunInstallerCmd(PathOf(SeqWsName, SeqScrmName), FALSE))
              /\ pc' = "FirstRunning"
              /\ UNCHANGED <<ws, files, ret, raisedAt>>
         ELSE /\ calls' = Append(calls, [RunInstallerCmd(PathOf(SeqWsName, SeqScrmName), FALSE)
                                            EXCEPT !.status = "nolaunch"])
              /\ SeqReturn("1", "Aborted", rmOk)
              /\ files' = FilesAfterCleanup(SeqWsName, rmOk)
              /\ raisedAt' = raisedAt \cup {"first"} \cup (IF rmOk THEN {} ELSE {"rmtree"})
    /\ UNCHANGED <<prog, args, hist, reg1, loc, outParts, reg0>>

\* the first installer exits; check=True turns a nonzero code into
\* CalledProcessError, which run_installer turns into False
SeqFirstExits ==
    /\ prog \in SequencerProgs
    /\ pc = "FirstRunning"
    /\ \E code \in ExitCodes, rmOk \in BOOLEAN :
         /\ calls' = EndLast("exited", code)
         /\ IF code = 0
            THEN /\ pc' = "FirstSucceeded"
                 /\ UNCHANGED <<ws, files, ret, raisedAt>>
            ELSE /\ SeqReturn("1", "Aborted", rmOk)
                 /\ files' = FilesAfterCleanup(SeqWsName, rmOk)
                 /\ raisedAt' = raisedAt \cup {"first"} \cup (IF rmOk THEN {} ELSE {"rmtree"})
    /\ UNCHANGED <<prog, args, hist, reg1, loc, outParts, reg0>>

\* main after run_installer(temp_sdk, silent=True): the result of the call is
\* dropped, "Installation completed successfully" is logged and 0 returned
MainResultAfterSecondMutant(ok) == IF ok THEN "0" ELSE "1"
MainResultAfterSecond(ok) == "0"

\* run_installer(temp_sdk, silent=True); its result is not looked at
SeqLaunchSecond ==
    /\ prog \in SequencerProgs
    /\ pc = "FirstSucceeded"
    /\ \E started \in BOOLEAN, rmOk \in BOOLEAN :
         IF started
         THEN /\ calls' = Append(calls, RunInstallerCmd(PathOf(SeqWsName, SDK_NAME), TRUE))
              /\ pc' = "SecondRunning"
              /\ UNCHANGED <<ws, files, ret, raisedAt>>
         ELSE /\ calls' = Append(calls, [RunInstallerCmd(PathOf(SeqWsName, SDK_NAME), TRUE)
                                            EXCEPT !.status = "nolaunch"])
              /\ SeqReturn(MainResultAfterSecond(FALSE), "Done", rmOk)
              /\ files' = FilesAfterCleanup(SeqWsName, rmOk)
              /\ raisedAt' = raisedAt \cup {"second"} \cup (IF rmOk THEN {} ELSE {"rmtree"})
    /\ UNCHANGED <<prog, args, hist, reg1, loc, outParts, reg0>>

\* the second installer exits; main logs and returns 0
SeqSecondExits ==
    /\ prog \in SequencerProgs
    /\ pc = "SecondRunning"
    /\ \E code \in ExitCodes, rmOk \in BOOLEAN :
         /\ calls' = EndLast("exited", code)
         /\ SeqReturn(MainResultAfterSecond(code = 0), "Done", rmOk)
         /\ files' = FilesAfterCleanup(SeqWsName, rmOk)
         /\ raisedAt' = raisedAt \cup (IF code = 0 THEN {} ELSE {"second"})
                                 \cup (IF rmOk THEN {} ELSE {"rmtree"})
    /\ UNCHANGED <<prog, args, hist, reg1, loc, outParts, reg0>>

\* --------------------------------- the Section of wrapper_installer.nsi
INSTDIR == "SCRM_Champion_Installer_"

\* ${GetTime} "" "L" $0 ... leaves the day of the month in $0
DayTexts == {<<"0","1">>, <<"3","1">>}
\* and the month in $1
MonthTexts == {<<"0","1">>, <<"1","2">>}

\* ${If} $0 == 0
NsisFirstSucceededMutant(r0) == TRUE
NsisFirstSucceeded(r0) == r0 = <<"0">>

\* the exit status of the wrapper after the Section: $1 is not read and the
\* script has no Abort, Quit or SetErrorLevel
NsisSectionResultMutant(r1) == IF r1 = <<"0">> THEN "0" ELSE "1"
NsisSectionResult(r1) == "0"

\* Delete, Delete, RMDir "$INSTDIR": RMDir removes the directory when it is empty
NsisCleanup(delOk) ==
    /\ ws' = [ws EXCEPT ![INSTDIR] = IF delOk THEN "removed" ELSE "leftover"]
    /\ files' = IF delOk THEN {f \in files : ParentOf(f) # INSTDIR} ELSE files

\* Function .onInit
NsisOnInit ==
    /\ prog = "nsis_wrapper"
    /\ pc = "Start"
    /\ reg0' \in DayTexts
    /\ reg1' \in MonthTexts
    /\ ws' = Mkdtemp(INSTDIR)
    /\ pc' = "Created"
    /\ UNCHANGED <<prog, args, hist, loc, outParts, files, calls, ret, raisedAt>>

\* SetOutPath, File /nonfatal x 2: the files that were packed are extracted
NsisExtract ==
    /\ prog = "nsis_wrapper"
    /\ pc = "Created"
    /\ files' = files \cup {PathOf(INSTDIR, NameOf(f)) : f \in {g \in files : ParentOf(g) = "package"}}
    /\ pc' = "Staged"
    /\ UNCHANGED <<prog, args, hist, reg1, loc, outParts, ws, calls, ret, raisedAt, reg0>>

\* ExecWait '"$INSTDIR\<scrm>"' $0: when the process cannot be created $0 keeps
\* its value and the ${If} is evaluated on it
NsisExecFirst ==
    /\ prog = "nsis_wrapper"
    /\ pc = "Staged"
    /\ \E started \in BOOLEAN, delOk \in BOOLEAN :
         /\ started => PathOf(INSTDIR, APP_NAME) \in files
         /\ IF started
            THEN /\ calls' = Append(calls, RunInstallerCmd(PathOf(INSTDIR, APP_NAME), FALSE))
                 /\ pc' = "FirstRunning"
                 /\ UNCHANGED <<ws, files, ret>>
            ELSE /\ calls' = Append(calls, [RunInstallerCmd(PathOf(INSTDIR, APP_NAME), FALSE)
                                               EXCEPT !.status = "nolaunch"])
                 /\ IF NsisFirstSucceeded(reg0)
                    THEN pc' = "FirstSucceeded" /\ UNCHANGED <<ws, files, ret>>
                    ELSE pc' = "Aborted" /\ NsisCleanup(delOk) /\ ret' = "0"
    /\ UNCHANGED <<prog, args, hist, reg1, loc, outParts, raisedAt, reg0>>

\* the first installer exits, its code is stored in $0 as text
NsisFirstExits ==
    /\ prog = "nsis_wrapper"
    /\ pc = "FirstRunning"
    /\ \E code \in ExitCodes, delOk \in BOOLEAN :
         /\ calls' = EndLast("exited", code)
         /\ reg0' = IntToText(code)
         /\ IF NsisFirstSucceeded(reg0')
            THEN pc' = "FirstSucceeded" /\ UNCHANGED <<ws, files, ret>>
            ELSE pc' = "Aborted" /\ NsisCleanup(delOk) /\ ret' = "0"
    /\ UNCHANGED <<prog, args, hist, reg1, loc, outParts, raisedAt>>

\* ExecWait '"$INSTDIR\<sdk>" /quiet /norestart' $1
NsisExecSecond ==
    /\ prog = "nsis_wrapper"
    /\ pc = "FirstSucceeded"
    /\ \E started \in BOOLEAN, delOk \in BOOLEAN :
         /\ started => PathOf(INSTDIR, SDK_NAME) \in files
         /\ IF started
            THEN /\ calls' = Append(calls, RunInstallerCmd(PathOf(INSTDIR, SDK_NAME), TRUE))
                 /\ pc' = "SecondRunning"
                 /\ UNCHANGED <<ws, files, ret>>
            ELSE /\ calls' = Append(calls, [RunInstallerCmd(PathOf(INSTDIR, SDK_NAME), TRUE)
                                               EXCEPT !.status = "nolaunch"])
                 /\ pc' = "Done" /\ NsisCleanup(delOk) /\ ret' = NsisSectionResult(reg1)
    /\ UNCHANGED <<prog, args, hist, reg1, loc, outParts, raisedAt, reg0>>

\* the second installer exits, its code is stored in $1; the Section ends
NsisSecondExits ==
    /\ prog = "nsis_wrapper"
    /\ pc = "SecondRunning"
    /\ \E code \in ExitCodes, delOk \in BOOLEAN :
         /\ calls' = EndLast("exited", code)
         /\ reg1' = IntToText(code)
         /\ pc' = "Done" /\ NsisCleanup(delOk) /\ ret' = NsisSectionResult(reg1')
    /\ UNCHANGED <<prog, args, hist, loc, outParts, raisedAt, reg0>>

\* ------------------- the Section "SCRM Champion" of direct_installer.nsi
PROGRAM_FILES == "PROGRAMFILES64/SCRM Champion"
UNINSTALLER_NAME == <<"U","n","i","n","s","t","a","l","l"," ","S","C","R","M"," ","C","h","a","m","p","i","o","n",".","e","x","e">>

\* sdk_install_command: the flags after "$INSTDIR\winsdksetup.exe"
sdk_install_commandMutant(silent_sdk) == SILENT_FLAGS
sdk_install_command(silent_sdk) == IF silent_sdk THEN SILENT_FLAGS ELSE << >>

\* the exit status of the installer after the Section: $1 is not read and the
\* script has no Abort, Quit or SetErrorLevel
DirectSectionResult(r1) == "0"

\* SetOutPath, File /r of the application files, File of the SDK installer,
\* the shortcuts
DirectInstallFiles ==
    /\ prog = "nsis_direct"
    /\ pc = "Start"
    /\ files' = files \cup {PathOf(PROGRAM_FILES, SDK_NAME)}
    /\ pc' = "Staged"
    /\ UNCHANGED <<prog, args, hist, reg1, loc, outParts, ws, calls, ret, raisedAt, reg0>>

\* ; Install Windows SDK: the ExecWait line follows the File lines with no
\* condition around it.  When the process cannot be created the Section goes
\* on to WriteUninstaller.
DirectExecSdk ==
    /\ prog = "nsis_direct"
    /\ pc = "Staged"
    /\ LET cmd == [tool |-> "installer", path |-> PathOf(PROGRAM_FILES, SDK_NAME),
                   flags |-> sdk_install_command(args.silent_sdk),
                   status |-> "running", code |-> 0]
       IN \E started \in BOOLEAN :
            IF started
            THEN /\ calls' = Append(calls, cmd)
                 /\ pc' = "SecondRunning"
                 /\ UNCHANGED <<files, ret>>
            ELSE /\ calls' = Append(calls, [cmd EXCEPT !.status = "nolaunch"])
                 /\ files' = files \cup {PathOf(PROGRAM_FILES, UNINSTALLER_NAME)}
                 /\ pc' = "Done"
                 /\ ret' = DirectSectionResult(reg1)
    /\ UNCHANGED <<prog, args, hist, reg1, loc, outParts, ws, raisedAt, reg0>>

\* the SDK installer exits, its code is stored in $1; WriteUninstaller
DirectSdkExits ==
    /\ prog = "nsis_direct"
    /\ pc = "SecondRunning"
    /\ \E code \in ExitCodes :
         /\ calls' = EndLast("exited", code)
         /\ reg1' = IntToText(code)
         /\ files' = files \cup {PathOf(PROGRAM_FILES, UNINSTALLER_NAME)}
         /\ pc' = "Done"
         /\ ret' = DirectSectionResult(reg1')
    /\ UNCHANGED <<prog, args, hist, loc, outParts, ws, raisedAt, reg0>>

\* ------------------------------------------------------------ Locator
\* pathlib.Path(text) drops a leading "./"; the explicit arguments are
\* <<directory text, name>>
Path(raw) == IF raw[1] = "./elsewhere" THEN PathOf("elsewhere", raw[2])
             ELSE IF raw[1] = "./out" THEN PathOf("out", raw[2])
             ELSE raw

\* [Path.cwd(), script_dir, parent_dir]
SearchDirsMutant == <<"parent", "script", "cwd">>
SearchDirs == <<"cwd", "script", "parent">>

\* the two nested for loops: every result the loops can leave in the slot,
\* the order of the files inside one directory being arbitrary
RECURSIVE FindInDirs(_, _)
FindInDirs(pattern, dirs) ==
    IF dirs = << >> THEN {None}
    ELSE LET matches == {f \in files : ParentOf(f) = Head(dirs) /\ GlobMatch(pattern, NameOf(f))}
         IN IF matches # {} THEN matches ELSE FindInDirs(pattern, Tail(dirs))

\* one slot of find_installers
FindSlot(explicit, pattern) ==
    IF explicit = None THEN FindInDirs(pattern, SearchDirs) ELSE {Path(explicit)}

\* find_installers: the pairs (scrm_path, sdk_path) it can return
find_installers(scrm_path, sdk_path) ==
    FindSlot(scrm_path, SCRM_GLOB) \X FindSlot(sdk_path, SDK_GLOB)

\* filename.split("SCRM Champion-")[1].split("-win")[0] or "latest"
version_match(filename) ==
    IF StrContains(PRODUCT_PREFIX, filename)
    THEN StrSplit(StrSplit(filename, PRODUCT_PREFIX)[2], WIN_TOKEN)[1]
    ELSE LATEST

create_output_pathMutant(scrm_path, output_path) ==
    PathOf(ParentOf(scrm_path), PRODUCT_PREFIX \o LATEST \o OUT_SUFFIX)
create_output_path(scrm_path, output_path) ==
    IF output_path = None
    THEN PathOf(ParentOf(scrm_path),
                PRODUCT_PREFIX \o version_match(NameOf(scrm_path)) \o OUT_SUFFIX)
    ELSE Path(output_path)

\* ------------------------------------- create_bundled_installer.main
BundlerWs == "bundler_"
NsisBundlerWs == "nsis_bundler_"

\* the module imports os, sys, shutil, tempfile, argparse, subprocess, logging,
\* Path and datetime: the name base64 is not bound
Base64Imported == FALSE

\* the pieces the fallback branch writes to output_path, in order
FallbackParts == <<"header", "silent_installer.py", "import base64",
                   "scrm open", "scrm base64", "scrm close",
                   "sdk open", "sdk base64", "sdk close", "extraction code">>

\* the pieces written before base64.b64encode is first evaluated
FallbackWritten == IF Base64Imported THEN FallbackParts ELSE SubSeq(FallbackParts, 1, 4)

\* outcomes of subprocess.run(..., check=True) for an external tool
ToolOutcomes == {"ok", "nonzero", "notfound"}

ToolCall(tool, outcome) ==
    [tool |-> tool, path |-> None, flags |-> << >>, status |-> outcome, code |-> 0]

\* if scrm_path is None: ... return 1 / if sdk_path is None: ... return 1
MissingInstallerMutant(found) == found[1] = None
MissingInstaller(found) == found[1] = None \/ found[2] = None

\* main up to the choice of strategy: find_installers, the two None checks,
\* create_output_path
BundlerMain ==
    /\ prog = "bundler"
    /\ pc = "Start"
    /\ \E found \in find_installers(args.scrm_installer, args.sdk_installer) :
         IF MissingInstaller(found)
         THEN /\ ret' = "1"
              /\ pc' = "Exit"
              /\ loc' = [loc EXCEPT !.scrm_path = found[1], !.sdk_path = found[2]]
         ELSE /\ loc' = [loc EXCEPT !.scrm_path = found[1], !.sdk_path = found[2],
                                    !.output_path = create_output_path(found[1], args.output)]
              /\ pc' = IF args.nsis THEN "NsisStart" ELSE "PyStart"
              /\ UNCHANGED ret
    /\ UNCHANGED <<prog, args, hist, reg1, files, ws, calls, raisedAt, reg0, outParts>>

\* create_python_bundler: tempfile.mkdtemp(prefix='bundler_'), before the try
PyMkdtemp ==
    /\ prog = "bundler"
    /\ pc = "PyStart"
    /\ \/ /\ ws' = Mkdtemp(BundlerWs)
          /\ pc' = "PyCreated"
          /\ UNCHANGED <<ret, raisedAt>>
       \/ /\ raisedAt' = raisedAt \cup {"mkdtemp"}
          /\ ret' = "raised"
          /\ pc' = "Exit"
          /\ UNCHANGED ws
    /\ UNCHANGED <<prog, args, hist, reg1, files, calls, reg0, loc, outParts>>

\* an exception leaves create_python_bundler through its finally block and
\* then leaves main, which has no handler
PyRaise(step, rmOk) ==
    /\ raisedAt' = raisedAt \cup {step} \cup (IF rmOk THEN {} ELSE {"rmtree"})
    /\ UNCHANGED loc
    /\ ret' = "raised"
    /\ pc' = "Exit"
    /\ ws' = Cleanup(BundlerWs, rmOk)

\* create_python_bundler returns output_path through its finally block and
\* main returns 0
PyReturn(rmOk) ==
    /\ raisedAt' = raisedAt \cup (IF rmOk THEN {} ELSE {"rmtree"})
    /\ loc' = [loc EXCEPT !.result = loc.output_path]
    /\ ret' = "0"
    /\ pc' = "Exit"
    /\ ws' = Cleanup(BundlerWs, rmOk)

\* silent_installer.py and run_installer.bat are written, the two installers
\* are copied; shutil.copy2 raises when its source does not exist
PyStage ==
    /\ prog = "bundler"
    /\ pc = "PyCreated"
    /\ \E rmOk \in BOOLEAN, copyOk \in BOOLEAN :
         IF copyOk /\ loc.scrm_path \in files /\ loc.sdk_path \in files
         THEN /\ files' = files \cup {PathOf(BundlerWs, EMB_NAME), PathOf(BundlerWs, SDK_NAME)}
              /\ pc' = "PyStaged"
              /\ UNCHANGED <<ws, ret, raisedAt, loc>>
         ELSE /\ PyRaise("copy", rmOk)
              /\ files' = FilesAfterCleanup(BundlerWs, rmOk)
    /\ UNCHANGED <<prog, args, hist, reg1, calls, reg0, outParts>>

\* the except (CalledProcessError, FileNotFoundError) branch: open(output_path,
\* 'wb') creates or truncates the file, the pieces are written in order and
\* base64.b64encode raises NameError when base64 is not bound
PyFallback(rmOk) ==
    /\ outParts' = FallbackWritten
    /\ files' = {f \in files \cup {loc.output_path} : rmOk => ParentOf(f) # BundlerWs}
    /\ IF Base64Imported THEN PyReturn(rmOk) ELSE PyRaise("fallback", rmOk)

\* subprocess.run(["7z", "--help"], check=True)
Py7zHelp ==
    /\ prog = "bundler"
    /\ pc = "PyStaged"
    /\ \E outcome \in ToolOutcomes, rmOk \in BOOLEAN :
         /\ calls' = Append(calls, ToolCall("7z --help", outcome))
         /\ IF outcome = "ok"
            THEN /\ pc' = "Py7zFound"
                 /\ UNCHANGED <<files, ws, ret, raisedAt, outParts, loc>>
            ELSE PyFallback(rmOk)
    /\ UNCHANGED <<prog, args, hist, reg1, reg0>>

\* subprocess.run(["7z", "a", archive_path, temp_dir/*], check=True)
Py7zAdd ==
    /\ prog = "bundler"
    /\ pc = "Py7zFound"
    /\ \E outcome \in ToolOutcomes, rmOk \in BOOLEAN :
         /\ calls' = Append(calls, ToolCall("7z a", outcome))
         /\ IF outcome = "ok"
            THEN /\ pc' = "PyArchived"
                 /\ UNCHANGED <<files, ws, ret, raisedAt, outParts, loc>>
            ELSE PyFallback(rmOk)
    /\ UNCHANGED <<prog, args, hist, reg1, reg0>>

\* config.txt is written and subprocess.run(["copy", "/b", ...], check=True)
\* concatenates the stub, the config and the archive into output_path
PyCopyB ==
    /\ prog = "bundler"
    /\ pc = "PyArchived"
    /\ \E outcome \in ToolOutcomes, rmOk \in BOOLEAN :
         /\ calls' = Append(calls, ToolCall("copy /b", outcome))
         /\ IF outcome = "ok"
            THEN /\ outParts' = <<"7zS.sfx", "config.txt", "installer.7z">>
                 /\ files' = {f \in files \cup {loc.output_path} : rmOk => ParentOf(f) # BundlerWs}
                 /\ PyReturn(rmOk)
            ELSE PyFallback(rmOk)
    /\ UNCHANGED <<prog, args, hist, reg1, reg0>>

\* create_nsis_bundler: tempfile.mkdtemp(prefix='nsis_bundler_'), before the try
NsisMkdtemp ==
    /\ prog = "bundler"
    /\ pc = "NsisStart"
    /\ \/ /\ ws' = Mkdtemp(NsisBundlerWs)
          /\ pc' = "NsisCreated"
          /\ UNCHANGED <<ret, raisedAt>>
       \/ /\ raisedAt' = raisedAt \cup {"mkdtemp"}
          /\ ret' = "raised"
          /\ pc' = "Exit"
          /\ UNCHANGED ws
    /\ UNCHANGED <<prog, args, hist, reg1, files, calls, reg0, loc, outParts>>

\* the result of create_nsis_bundler for an outcome of makensis
NsisResultMutant(outcome) == loc.output_path
NsisResult(outcome) == IF outcome = "ok" THEN loc.output_path ELSE None

\* wrapper_installer.nsi is written (File /nonfatal for both installers),
\* makensis is run, the finally block removes the directory, and main maps
\* the result to its return value
NsisMakensis ==
    /\ prog = "bundler"
    /\ pc = "NsisCreated"
    /\ \E outcome \in ToolOutcomes, rmOk \in BOOLEAN :
         /\ calls' = Append(calls, ToolCall("makensis", outcome))
         /\ IF outcome = "ok"
            THEN /\ outParts' = <<"wrapper_installer">>
                 /\ files' = files \cup {loc.output_path}
            ELSE UNCHANGED <<outParts, files>>
         /\ ws' = Cleanup(NsisBundlerWs, rmOk)
         /\ raisedAt' = raisedAt \cup (IF rmOk THEN {} ELSE {"rmtree"})
         /\ loc' = [loc EXCEPT !.result = NsisResult(outcome)]
         /\ ret' = IF loc'.result # None THEN "0" ELSE "1"
         /\ pc' = "Exit"
    /\ UNCHANGED <<prog, args, hist, reg1, reg0>>

\* ------------------------------- RepackageTool.extract_and_repackage
ExtractWs == "scrm_extract_"
NsisDirectWs == "nsis_direct_"

\* extract_and_repackage up to the extraction: find_installers, the two None
\* checks, create_output_path
RepMain ==
    /\ prog = "repackage"
    /\ pc = "Start"
    /\ \E found \in find_installers(args.scrm_installer, args.sdk_installer) :
         IF MissingInstaller(found)
         THEN /\ ret' = "1"
              /\ pc' = "Exit"
              /\ loc' = [loc EXCEPT !.scrm_path = found[1], !.sdk_path = found[2]]
         ELSE /\ loc' = [loc EXCEPT !.scrm_path = found[1], !.sdk_path = found[2],
                                    !.output_path = create_output_path(found[1], args.output)]
              /\ pc' = "RepStart"
              /\ UNCHANGED ret
    /\ UNCHANGED <<prog, args, hist, reg1, files, ws, calls, raisedAt, reg0, outParts>>

\* extract_scrm_installer: tempfile.mkdtemp(prefix='scrm_extract_'), before the try
RepMkdtempExtract ==
    /\ prog = "repackage"
    /\ pc = "RepStart"
    /\ \/ /\ ws' = Mkdtemp(ExtractWs)
          /\ pc' = "RepExtractCreated"
          /\ UNCHANGED <<ret, raisedAt>>
       \/ /\ raisedAt' = raisedAt \cup {"mkdtemp"}
          /\ ret' = "raised"
          /\ pc' = "Exit"
          /\ UNCHANGED ws
    /\ UNCHANGED <<prog, args, hist, reg1, files, calls, reg0, loc, outParts>>

\* 7z x of the installer and, when $PLUGINSDIR/app-64.7z came out of it, 7z x
\* of that archive.  Both except branches call shutil.rmtree without a guard
\* and return None, on which extract_and_repackage returns 1.
RepExtract ==
    /\ prog = "repackage"
    /\ pc = "RepExtractCreated"
    /\ \E first \in ToolOutcomes, hasApp \in BOOLEAN, second \in ToolOutcomes, rmOk \in BOOLEAN :
         /\ first = "ok" => loc.scrm_path \in files
         /\ LET ran == IF first = "ok" /\ hasApp
                       THEN <<ToolCall("7z x", first), ToolCall("7z x", second)>>
                       ELSE <<ToolCall("7z x", first)>>
                failed == first # "ok" \/ (hasApp /\ second # "ok")
            IN /\ calls' = calls \o ran
               /\ IF ~failed
                  THEN /\ pc' = "RepExtracted"
                       /\ UNCHANGED <<ws, ret, raisedAt>>
                  ELSE /\ pc' = "Exit"
                       /\ ws' = [ws EXCEPT ![ExtractWs] = IF rmOk THEN "removed" ELSE "leftover"]
                       /\ ret' = IF rmOk THEN "1" ELSE "raised"
                       /\ raisedAt' = raisedAt \cup {"7z"} \cup (IF rmOk THEN {} ELSE {"rmtree"})
    /\ UNCHANGED <<prog, args, hist, reg1, files, reg0, loc, outParts>>

\* create_direct_nsis_installer: tempfile.mkdtemp(prefix='nsis_direct_'),
\* before its try; the exception passes the finally of extract_and_repackage
RepMkdtempNsis ==
    /\ prog = "repackage"
    /\ pc = "RepExtracted"
    /\ \E rmOk \in BOOLEAN :
       \/ /\ ws' = Mkdtemp(NsisDirectWs)
          /\ pc' = "RepNsisCreated"
          /\ UNCHANGED <<ret, raisedAt>>
       \/ /\ raisedAt' = raisedAt \cup {"mkdtemp"} \cup (IF rmOk THEN {} ELSE {"rmtree"})
          /\ ret' = "raised"
          /\ pc' = "Exit"
          /\ ws' = Cleanup(ExtractWs, rmOk)
    /\ UNCHANGED <<prog, args, hist, reg1, files, calls, reg0, loc, outParts>>

\* the finally block of create_direct_nsis_installer, then the finally block
\* of extract_and_repackage: shutil.rmtree of each directory, errors logged
RepFinallyMutant(rmNsisOk, rmExtractOk) ==
    [ws EXCEPT ![NsisDirectWs] = IF rmNsisOk THEN "removed" ELSE "leftover"]
RepFinally(rmNsisOk, rmExtractOk) ==
    [ws EXCEPT ![NsisDirectWs] = IF rmNsisOk THEN "removed" ELSE "leftover",
               ![ExtractWs] = IF rmExtractOk THEN "removed" ELSE "leftover"]

\* direct_installer.nsi is written (File "<sdk_path>" is fatal when the file
\* is missing), makensis is run, both finally blocks remove their directory
RepMakensis ==
    /\ prog = "repackage"
    /\ pc = "RepNsisCreated"
    /\ \E outcome \in ToolOutcomes, rmNsisOk \in BOOLEAN, rmExtractOk \in BOOLEAN :
         /\ outcome = "ok" => loc.sdk_path \in files
         /\ calls' = Append(calls, ToolCall("makensis", outcome))
         /\ IF outcome = "ok"
            THEN /\ outParts' = <<"direct_installer">>
                 /\ files' = files \cup {loc.output_path}
            ELSE UNCHANGED <<outParts, files>>
         /\ ws' = RepFinally(rmNsisOk, rmExtractOk)
         /\ raisedAt' = raisedAt \cup (IF rmNsisOk /\ rmExtractOk THEN {} ELSE {"rmtree"})
         /\ ret' = IF outcome = "ok" THEN "0" ELSE "1"
         /\ pc' = "Exit"
    /\ UNCHANGED <<prog, args, hist, reg1, reg0, loc>>

\* ------------------- running the file the fallback branch wrote (python X)
\* The interpreter compiles the whole file before it runs any of it: a file
\* that stops inside base64.b64decode(''' is a SyntaxError (exit status 1).
\* A complete file runs from the top: the text of silent_installer.py comes
\* first and ends with if __name__ == "__main__": sys.exit(main()), so main
\* runs, and the process exits, before the def of extract_installers and the
\* second __main__ block are reached.
ScriptLoad ==
    /\ prog = "fallback_script"
    /\ pc = "Load"
    /\ IF outParts # FallbackParts
       THEN /\ raisedAt' = raisedAt \cup {"syntax"}
            /\ ret' = "1"
            /\ pc' = "Aborted"
       ELSE /\ pc' = "Start"
            /\ UNCHANGED <<ret, raisedAt>>
    /\ UNCHANGED <<prog, args, hist, reg1, loc, outParts, files, ws, calls, reg0>>

\* ------------------- create_bundled_installer.py is run once more
\* After a run that returned 0 the same command line, without explicit paths,
\* is given again in the same directories.  Everything main keeps in local
\* variables starts afresh (mkdtemp names a new directory each time); the
\* files on disk stay as the first run left them.
Rerun ==
    /\ prog = "bundler"
    /\ pc = "Exit"
    /\ ret = "0"
    /\ hist.run < MaxRuns
    /\ args.scrm_installer = None /\ args.sdk_installer = None /\ args.output = None
    /\ hist' = [run |-> hist.run + 1, scrm_path |-> loc.scrm_path, output_path |-> loc.output_path]
    /\ pc' = "Start"
    /\ ret' = "none"
    /\ calls' = << >>
    /\ raisedAt' = {}
    /\ outParts' = << >>
    /\ ws' = [w \in WsNames |-> "absent"]
    /\ loc' = [scrm_path |-> None, sdk_path |-> None, output_path |-> None, result |-> None]
    /\ UNCHANGED <<prog, args, files, reg0, reg1>>

\* ------------------------------------------------------------ behaviours
InitCommon ==
    /\ pc = "Start"
    /\ ws = [w \in WsNames |-> "absent"]
    /\ calls = << >>
    /\ ret = "none"
    /\ raisedAt = {}
    /\ reg0 = << >>
    /\ loc = [scrm_path |-> None, sdk_path |-> None, output_path |-> None, result |-> None]
    /\ outParts = << >>
    /\ reg1 = << >>
    /\ hist = [run |-> 1, scrm_path |-> None, output_path |-> None]

\* the sequencer starts next to any subset of its two installer files
InitSequencer ==
    /\ prog \in {"silent_installer", "embedded_installer"}
    /\ args = NoArgs
    /\ files \in SUBSET {PathOf("script", SeqScrmName), PathOf("script", SDK_NAME)}

\* the fallback script, as create_python_bundler left it, is started in a
\* directory that holds nothing else
InitFallbackScript ==
    /\ prog = "fallback_script"
    /\ pc = "Load"
    /\ args = NoArgs
    /\ files = {}
    /\ outParts = FallbackWritten
    /\ ws = [w \in WsNames |-> "absent"]
    /\ calls = << >>
    /\ ret = "none"
    /\ raisedAt = {}
    /\ reg0 = << >>
    /\ reg1 = << >>
    /\ loc = [scrm_path |-> None, sdk_path |-> None, output_path |-> None, result |-> None]
    /\ hist = [run |-> 1, scrm_path |-> None, output_path |-> None]

\* the wrapper starts with the files makensis found when it was compiled
InitNsisWrapper ==
    /\ prog = "nsis_wrapper"
    /\ args = NoArgs
    /\ files \in SUBSET {PathOf("package", APP_NAME), PathOf("package", SDK_NAME)}

\* the direct installer was compiled for either value of silent_sdk
InitNsisDirect ==
    /\ prog = "nsis_direct"
    /\ args \in {[NoArgs EXCEPT !.silent_sdk = b] : b \in BOOLEAN}
    /\ files = {}

\* what each searched directory can hold when the bundler starts
CwdChoices == {{}, {APP_NAME}, {SDK_NAME}, {APP_NAME, SDK_NAME},
               {NOWIN_NAME, TWICE_NAME, SDK_NAME}, {OTHER_NAME}}
ScriptDirChoices == {{}, {APP_NAME}, {EMB_NAME, SDK_NAME}}
ParentDirChoices == {{}, {SDK_NAME}, {TWICE_NAME}}
ElsewhereChoices == {{}, {APP_NAME, NOWIN_NAME, TWICE_NAME, EMB_NAME, SDK_NAME}}

InitFiles ==
    \E c \in CwdChoices, s \in ScriptDirChoices, p \in ParentDirChoices, e \in ElsewhereChoices :
        files = {PathOf("cwd", n) : n \in c} \cup {PathOf("script", n) : n \in s}
                \cup {PathOf("parent", n) : n \in p} \cup {PathOf("elsewhere", n) : n \in e}

ExplicitScrm == {None} \cup {<<"./elsewhere", n>> : n \in {APP_NAME, NOWIN_NAME, TWICE_NAME, EMB_NAME}}
ExplicitSdk == {None, <<"elsewhere", SDK_NAME>>}
ExplicitOutput == {None, <<"./out", CUSTOM_OUT>>}

\* the bundler is started with any combination of its command-line arguments
InitBundler ==
    /\ prog = "bundler"
    /\ args \in [scrm_installer : ExplicitScrm, sdk_installer : ExplicitSdk,
                 output : ExplicitOutput, nsis : BOOLEAN, silent_sdk : {FALSE}]
    /\ InitFiles

\* extract_and_repackage is called with any combination of its arguments
InitRepackage ==
    /\ prog = "repackage"
    /\ args \in [scrm_installer : ExplicitScrm, sdk_installer : ExplicitSdk,
                 output : ExplicitOutput, nsis : {FALSE}, silent_sdk : BOOLEAN]
    /\ InitFiles

Init ==
    \/ /\ InitCommon
       /\ \/ InitSequencer
          \/ InitNsisWrapper
          \/ InitNsisDirect
          \/ InitBundler
          \/ InitRepackage
    \/ InitFallbackScript

Next ==
    \/ SeqCreateTempDir
    \/ SeqStage
    \/ SeqLaunchFirst
    \/ SeqFirstExits
    \/ SeqLaunchSecond
    \/ SeqSecondExits
    \/ NsisOnInit
    \/ NsisExtract
    \/ NsisExecFirst
    \/ NsisFirstExits
    \/ NsisExecSecond
    \/ NsisSecondExits
    \/ ScriptLoad
    \/ Rerun
    \/ DirectInstallFiles
    \/ DirectExecSdk
    \/ DirectSdkExits
    \/ BundlerMain
    \/ PyMkdtemp
    \/ PyStage
    \/ Py7zHelp
    \/ Py7zAdd
    \/ PyCopyB
    \/ NsisMkdtemp
    \/ NsisMakensis
    \/ RepMain
    \/ RepMkdtempExtract
    \/ RepExtract
    \/ RepMkdtempNsis
    \/ RepMakensis

Spec == Init /\ [][Next]_vars

\* main runs on its own thread of control, so each of its steps is taken once
\* it is enabled; fairness of the two exit steps is the assumption that every
\* launched installer process eventually exits (subprocess.run has no timeout)
SeqFairness ==
    /\ WF_vars(ScriptLoad)
    /\ WF_vars(SeqCreateTempDir)
    /\ WF_vars(SeqStage)
    /\ WF_vars(SeqLaunchFirst)
    /\ WF_vars(SeqLaunchSecond)
    /\ WF_vars(SeqFirstExits)
    /\ WF_vars(SeqSecondExits)

LiveSpec == Init /\ [][Next]_vars /\ SeqFairness

\* ================================================================ claims
Terminal == ret # "none"
InstallTimeProgs == SequencerProgs \cup {"nsis_wrapper"}

\* the positions in calls where the second (SDK) installer was launched
SecondLaunches == {i \in 1..Len(calls) : NameOf(calls[i].path) = SDK_NAME}
FirstExitedZero == Len(calls) >= 1 /\ calls[1].status = "exited" /\ calls[1].code = 0

\* C1: in the sequencer, its embedded copy and the NSIS wrapper's Section the
\* second installer is launched at most once and only as the second child
\* process, after the first installer has exited with code 0; once the run
\* has ended after a first exit code of 0 it has been launched exactly once;
\* after a nonzero exit or a failed launch of the first it is never launched.
C1_SecondOnlyAfterFirstSuccess ==
    prog \in InstallTimeProgs =>
        /\ Cardinality(SecondLaunches) <= 1
        /\ \A i \in SecondLaunches :
              /\ i = 2
              /\ NameOf(calls[1].path) # SDK_NAME
              /\ calls[1].status = "exited"
              /\ calls[1].code = 0
        /\ (Terminal /\ FirstExitedZero) => Cardinality(SecondLaunches) = 1

C1_Witness ==
    /\ prog \in InstallTimeProgs
    /\ pc = "Done"
    /\ FirstExitedZero
    /\ SecondLaunches = {2}
    /\ calls[2].status = "exited"

\* the temporary directories owned by silent_installer.main,
\* create_python_bundler and create_nsis_bundler
OwnedWs == {SeqWsName, BundlerWs, NsisBundlerWs}

ExistsAfterCreation ==
    /\ (prog \in SequencerProgs /\ pc = "Created") => ws[SeqWsName] = "present"
    /\ (prog = "bundler" /\ pc = "PyCreated") => ws[BundlerWs] = "present"
    /\ (prog = "bundler" /\ pc = "NsisCreated") => ws[NsisBundlerWs] = "present"
    /\ \A w \in OwnedWs : (~Terminal /\ ws[w] # "absent") => ws[w] = "present"

\* C2 as stated: a workspace exists right after its creation and never exists
\* once the owning operation has finished, whatever the exit path.
C2_Original ==
    /\ ExistsAfterCreation
    /\ \A w \in OwnedWs : Terminal => ws[w] \in {"absent", "removed"}

\* C2 (amended): a workspace exists from its creation until the owning
\* operation finishes; on every exit path the finally block has run
\* shutil.rmtree on it, and the directory is gone unless that rmtree itself
\* raised (the error is logged and swallowed and the directory may remain).
C2_RemovedUnlessRmtreeRaised ==
    /\ ExistsAfterCreation
    /\ \A w \in OwnedWs :
          Terminal => /\ ws[w] # "present"
                      /\ ws[w] = "leftover" => "rmtree" \in raisedAt

C2_Witness ==
    /\ prog \in SequencerProgs
    /\ ret = "1"
    /\ calls = << >>
    /\ ws[SeqWsName] = "removed"

SevenZipFailed ==
    \E i \in 1..Len(calls) :
        /\ calls[i].tool \in {"7z --help", "7z a"}
        /\ calls[i].status \in {"nonzero", "notfound"}

\* C3: when 7z is absent or exits nonzero, create_python_bundler ends with
\* the complete self-running script at output_path, returns output_path and
\* main returns 0.
C3_FallbackCompletes ==
    (prog = "bundler" /\ pc = "Exit" /\ SevenZipFailed) =>
        /\ ret = "0"
        /\ loc.result = loc.output_path
        /\ outParts = FallbackParts
        /\ loc.output_path \in files

\* C4: in the sequencing script, once the first installer has exited with 0
\* the run ends in Done with main returning 0 whatever the second installer
\* did; main ends otherwise than by returning 0 only when the first installer
\* failed, an installer file was missing or an unexpected error occurred.
C4_SecondNeverFatal ==
    (prog \in SequencerProgs /\ Terminal) =>
        /\ FirstExitedZero => (pc = "Done" /\ ret = "0")
        /\ ret # "0" =>
              \/ /\ Len(calls) >= 1
                 /\ \/ calls[1].status = "nolaunch"
                    \/ calls[1].status = "exited" /\ calls[1].code # 0
              \/ PathOf("script", SeqScrmName) \notin files
              \/ PathOf("script", SDK_NAME) \notin files
              \/ raisedAt \cap {"mkdtemp", "copy"} # {}

C4_Witness ==
    /\ prog \in SequencerProgs
    /\ pc = "Done"
    /\ FirstExitedZero
    /\ Len(calls) = 2
    /\ calls[2].status = "exited"
    /\ calls[2].code # 0
    /\ ret = "0"

\* C5 as stated: an exception raised while creating the workspace, copying
\* the installers or running either installer is caught inside main, which
\* returns 1.
C5_Original ==
    (prog \in SequencerProgs /\ Terminal
        /\ raisedAt \cap {"mkdtemp", "copy", "first", "second"} # {}) => ret = "1"

\* C5 (amended): an exception raised while copying the installers is caught
\* by main, which returns 1; an exception raised while running the first
\* installer is caught inside run_installer and main returns 1; an exception
\* raised while running the second installer is caught inside run_installer
\* and main still returns 0; an exception raised by create_temp_dir happens
\* before the try block and is the only one that leaves main.
C5_CaughtExceptTempDir ==
    (prog \in SequencerProgs /\ Terminal) =>
        /\ ("mkdtemp" \in raisedAt) <=> (ret = "raised")
        /\ ("copy" \in raisedAt \/ "first" \in raisedAt) => ret = "1"
        /\ ("second" \in raisedAt) => ret = "0"

C5_Witness ==
    /\ prog \in SequencerProgs
    /\ Terminal
    /\ "second" \in raisedAt
    /\ calls[2].status = "nolaunch"
    /\ ret = "0"

MakensisFailed ==
    \E i \in 1..Len(calls) :
        /\ calls[i].tool = "makensis"
        /\ calls[i].status \in {"nonzero", "notfound"}

NoFallbackAfterMakensis ==
    /\ loc.result = None
    /\ ret = "1"
    /\ \A i \in 1..Len(calls) : calls[i].tool = "makensis"
    /\ ws[BundlerWs] = "absent"
    /\ outParts = << >>

\* C6 as stated: with --nsis, when makensis is missing or exits nonzero,
\* create_nsis_bundler returns None, main returns 1, the Python strategy is
\* not attempted and the NSIS workspace directory is removed.
C6_Original ==
    (prog = "bundler" /\ args.nsis /\ pc = "Exit" /\ MakensisFailed) =>
        /\ NoFallbackAfterMakensis
        /\ ws[NsisBundlerWs] = "removed"

\* C6 (amended): with --nsis, when makensis is missing or exits nonzero,
\* create_nsis_bundler returns None, main returns 1, the Python strategy is
\* not attempted, and shutil.rmtree has been run on the NSIS workspace: the
\* directory is removed unless that rmtree itself raised.
C6_NoFallback ==
    (prog = "bundler" /\ args.nsis /\ pc = "Exit" /\ MakensisFailed) =>
        /\ NoFallbackAfterMakensis
        /\ ws[NsisBundlerWs] \in {"removed", "leftover"}
        /\ ws[NsisBundlerWs] = "leftover" => "rmtree" \in raisedAt

C6_Witness ==
    /\ prog = "bundler"
    /\ args.nsis
    /\ pc = "Exit"
    /\ Len(calls) = 1
    /\ calls[1].tool = "makensis"
    /\ calls[1].status = "notfound"
    /\ ws[NsisBundlerWs] = "removed"

\* the place of a directory in the search order current, script, parent
DirRank(d) == CASE d = "cwd" -> 1 [] d = "script" -> 2 [] d = "parent" -> 3 [] OTHER -> 4

\* what one slot must hold after find_installers
SlotResolved(explicit, pattern, got) ==
    IF explicit # None THEN got = Path(explicit)
    ELSE LET M == {f \in files : DirRank(ParentOf(f)) <= 3 /\ GlobMatch(pattern, NameOf(f))}
         IN IF M = {} THEN got = None
            ELSE /\ got \in M
                 /\ \A f \in M : DirRank(ParentOf(got)) <= DirRank(ParentOf(f))

\* the states right after find_installers returned (nothing else has run)
AfterLocator ==
    /\ prog \in {"bundler", "repackage"}
    /\ \/ pc \in {"PyStart", "NsisStart", "RepStart"}
       \/ pc = "Exit" /\ (loc.scrm_path = None \/ loc.sdk_path = None)

\* C7: find_installers resolves each slot on its own: an explicit path is
\* returned as given; an omitted one is a file matching the slot's glob in the
\* first of current, script and parent directory that has a match, and None
\* when none of them has one.
C7_LocatorSlots ==
    AfterLocator =>
        /\ SlotResolved(args.scrm_installer, SCRM_GLOB, loc.scrm_path)
        /\ SlotResolved(args.sdk_installer, SDK_GLOB, loc.sdk_path)

C7_Witness ==
    /\ AfterLocator
    /\ args.scrm_installer = None
    /\ args.sdk_installer = None
    /\ loc.scrm_path # None
    /\ ParentOf(loc.scrm_path) = "script"
    /\ loc.sdk_path = None

\* C8: when find_installers leaves a slot None, main of the bundler and
\* extract_and_repackage return 1 in that step, with no workspace created, no
\* external tool run, no output path derived and no file written.
C8_MissingAbortsUnchanged ==
    [][(prog \in {"bundler", "repackage"} /\ pc = "Start"
          /\ (loc'.scrm_path = None \/ loc'.sdk_path = None))
       => /\ ret' = "1"
          /\ pc' = "Exit"
          /\ loc'.output_path = None
          /\ UNCHANGED <<files, ws, calls, outParts>>]_vars

C8_Witness ==
    /\ prog = "repackage"
    /\ pc = "Exit"
    /\ loc.scrm_path # None
    /\ loc.sdk_path = None
    /\ ret = "1"
    /\ calls = << >>

ExplicitMissing(explicit) == explicit # None /\ Path(explicit) \notin files

\* C9: when an explicitly given installer path names no existing file, main
\* of the bundler does not return 0, under the Python and the NSIS strategy.
C9_MissingExplicitFails ==
    (prog = "bundler" /\ pc = "Exit"
        /\ (ExplicitMissing(args.scrm_installer) \/ ExplicitMissing(args.sdk_installer)))
    => ret # "0"

Min(S) == CHOOSE e \in S : \A x \in S : e <= x

\* the version as C10 words it: between the first prefix and the next "-win"
ClaimedVersion(name) ==
    IF ~StrContains(PRODUCT_PREFIX, name) THEN LATEST
    ELSE LET k == StrFind(PRODUCT_PREFIX, name, 1) + Len(PRODUCT_PREFIX)
             w == StrFind(WIN_TOKEN, name, k)
         IN SubSeq(name, k, w - 1)

\* the version as amended: after the first prefix, up to the earliest of the
\* next prefix, the next "-win" and the end of the name
AmendedVersion(name) ==
    IF ~StrContains(PRODUCT_PREFIX, name) THEN LATEST
    ELSE LET k == StrFind(PRODUCT_PREFIX, name, 1) + Len(PRODUCT_PREFIX)
             w == StrFind(WIN_TOKEN, name, k)
             p == StrFind(PRODUCT_PREFIX, name, k)
             ends == {Len(name) + 1} \cup (IF w # 0 THEN {w} ELSE {})
                                     \cup (IF p # 0 THEN {p} ELSE {})
         IN SubSeq(name, k, Min(ends) - 1)

\* the states right after create_output_path returned
OutputDerived ==
    /\ prog \in {"bundler", "repackage"}
    /\ pc \in {"PyStart", "NsisStart", "RepStart"}

\* C10 as stated: without an explicit output the result is, in the
\* installer's directory, prefix + V + "-with-SDK-win32-x64.exe", V being the
\* text between the first prefix and the next "-win" ("latest" without the
\* prefix); an explicit output is returned as given.
C10_Original ==
    OutputDerived =>
        loc.output_path =
            IF args.output = None
            THEN PathOf(ParentOf(loc.scrm_path),
                        PRODUCT_PREFIX \o ClaimedVersion(NameOf(loc.scrm_path)) \o OUT_SUFFIX)
            ELSE Path(args.output)

\* C10 (amended): as C10, V being the text after the first occurrence of the
\* prefix up to the earliest of the next occurrence of the prefix, the next
\* "-win" and the end of the file name ("latest" without the prefix).
C10_OutputPath ==
    OutputDerived =>
        loc.output_path =
            IF args.output = None
            THEN PathOf(ParentOf(loc.scrm_path),
                        PRODUCT_PREFIX \o AmendedVersion(NameOf(loc.scrm_path)) \o OUT_SUFFIX)
            ELSE Path(args.output)

C10_Witness ==
    /\ OutputDerived
    /\ args.output = None
    /\ NameOf(loc.scrm_path) = TWICE_NAME
    /\ NameOf(loc.output_path) = PRODUCT_PREFIX \o OUT_SUFFIX

\* what the operation returns when every removal succeeds, told from the
\* rest of what happened in the run
OutcomeWithoutRmtree ==
    IF raisedAt \cap {"mkdtemp", "fallback"} # {} \/ (prog = "bundler" /\ "copy" \in raisedAt)
    THEN "raised"
    ELSE IF prog \in SequencerProgs
    THEN (IF pc = "Done" THEN "0" ELSE "1")
    ELSE IF loc.scrm_path = None \/ loc.sdk_path = None \/ "7z" \in raisedAt \/ MakensisFailed
    THEN "1"
    ELSE "0"

\* C11: a failing removal of a workspace directory is caught and logged and
\* never changes the outcome: the run ends as it would have ended had the
\* removal succeeded (sequencer, bundler, RepackageTool).
C11_CleanupNeverEscalates ==
    (prog \in SequencerProgs \cup {"bundler", "repackage"} /\ Terminal /\ "rmtree" \in raisedAt)
    => ret = OutcomeWithoutRmtree

NativeProgs == {"nsis_wrapper", "nsis_direct"}

\* the second (SDK) installer ran and exited with a nonzero code
SecondFailed ==
    \E i \in 1..Len(calls) :
        /\ NameOf(calls[i].path) = SDK_NAME
        /\ calls[i].status = "exited"
        /\ calls[i].code # 0

\* C12 as stated: in the native-installer path a nonzero exit code of the
\* second installer makes the generated NSIS installer end as failed.
C12_Original ==
    (prog \in NativeProgs /\ Terminal /\ SecondFailed) => ret # "0"

\* C12 (amended): in the native-installer path a nonzero exit code of the
\* second installer is stored in $1 and never read: the Section runs to its
\* end and the generated NSIS installer completes as a success.
C12_SecondFailureIgnored ==
    (prog \in NativeProgs /\ Terminal /\ SecondFailed) =>
        /\ pc = "Done"
        /\ ret = "0"
        /\ reg1 = IntToText(calls[Len(calls)].code)
        /\ reg1 # <<"0">>

C12_Witness ==
    /\ prog = "nsis_wrapper"
    /\ Terminal
    /\ SecondFailed
    /\ ret = "0"

\* C13: in every run of the sequencer (script or NSIS wrapper) the first
\* installer is launched without arguments and the second, whenever it is
\* launched, with exactly /quiet /norestart.
C13_AttendedThenSilent ==
    prog \in InstallTimeProgs =>
        \A i \in 1..Len(calls) :
            calls[i].flags = IF NameOf(calls[i].path) = SDK_NAME
                             THEN <<"/quiet", "/norestart">> ELSE << >>

C13_Witness ==
    /\ prog \in SequencerProgs
    /\ Len(calls) = 2
    /\ calls[1].flags = << >>
    /\ NameOf(calls[2].path) = SDK_NAME
    /\ calls[2].flags = <<"/quiet", "/norestart">>

SeqTerminal == pc \in {"Done", "Aborted"}
SeqWaiting == pc \in {"FirstRunning", "SecondRunning"}

\* C14 as stated: when every launched installer eventually exits, every run of
\* the sequencer eventually is in Done or Aborted with its workspace removed.
C14_Original ==
    (prog \in SequencerProgs) =>
        <>(SeqTerminal /\ ws[SeqWsName] \in {"absent", "removed"})

\* C14 (amended): when every launched installer eventually exits, every run of
\* the sequencer eventually is in Done or Aborted, and by then the removal of
\* its workspace has been attempted: the workspace is gone unless rmtree
\* raised.  Nothing changes a terminal run's launches, and a waiting run
\* leaves FirstRunning or SecondRunning only when the child exits (there is
\* no timeout).
C14_Terminates ==
    /\ (prog \in SequencerProgs) =>
           <>(/\ SeqTerminal
              /\ \/ ws[SeqWsName] \in {"absent", "removed"}
                 \/ ws[SeqWsName] = "leftover" /\ "rmtree" \in raisedAt)
    /\ [][(prog \in SequencerProgs /\ SeqTerminal) => UNCHANGED <<pc, calls, ws>>]_vars
    /\ [][(prog \in SequencerProgs /\ SeqWaiting /\ pc' # pc) =>
             /\ Len(calls') = Len(calls)
             /\ calls'[Len(calls')].status = "exited"]_vars

C14_Witness ==
    /\ prog \in SequencerProgs
    /\ pc = "Done"
    /\ Len(calls) = 2
    /\ calls[2].status = "exited"
    /\ ws[SeqWsName] = "removed"

\* C15: a run of the self-running script written by the fallback branch, in a
\* directory holding only that script, extracts its payloads before main
\* checks for them, so it does not end without having launched the first
\* installer.
C15_FallbackScriptLaunchesFirst ==
    (prog = "fallback_script" /\ Terminal) =>
        /\ Len(calls) >= 1
        /\ "syntax" \notin raisedAt
        /\ PathOf("script", EMB_NAME) \in files

\* C16: the install Section of direct_installer.nsi runs the SDK installer
\* step whatever silent_sdk is and whatever happened before it; silent_sdk
\* only decides whether /quiet /norestart follow the program name.
C16_SdkStepUnconditional ==
    (prog = "nsis_direct" /\ pc \in {"SecondRunning", "Done"}) =>
        /\ Len(calls) = 1
        /\ calls[1].path = PathOf(PROGRAM_FILES, SDK_NAME)
        /\ calls[1].flags = IF args.silent_sdk
                            THEN <<"/quiet", "/norestart">> ELSE << >>

C16_Witness ==
    /\ prog = "nsis_direct"
    /\ ~args.silent_sdk
    /\ pc = "Done"
    /\ Len(calls) = 1
    /\ calls[1].status = "exited"
    /\ calls[1].flags = << >>

RepWs == {"scrm_extract_", "nsis_direct_"}

\* C17 as stated: once extract_and_repackage has ended, neither the
\* extraction directory nor the NSIS script directory exists.
C17_Original ==
    (prog = "repackage" /\ Terminal) =>
        \A w \in RepWs : ws[w] \in {"absent", "removed"}

\* C17 (amended): once extract_and_repackage has ended, whichever way, each of
\* the two directories that was created has been through shutil.rmtree, and
\* it is gone unless that rmtree raised.
C17_RemovedUnlessRmtreeRaised ==
    (prog = "repackage" /\ Terminal) =>
        \A w \in RepWs :
            \/ ws[w] \in {"absent", "removed"}
            \/ ws[w] = "leftover" /\ "rmtree" \in raisedAt

C17_Witness ==
    /\ prog = "repackage"
    /\ ret = "0"
    /\ ws["scrm_extract_"] = "removed"
    /\ ws["nsis_direct_"] = "removed"

SeqOriginals == {PathOf("script", SeqScrmName), PathOf("script", SDK_NAME)}
SeqCopies == {PathOf(SeqWsName, SeqScrmName), PathOf(SeqWsName, SDK_NAME)}

\* every launch is of a workspace copy, made while both originals were there;
\* while an installer runs, both copies are in the workspace
LaunchesOnlyStagedCopies ==
    Len(calls) >= 1 =>
        /\ SeqOriginals \subseteq files
        /\ \A i \in 1..Len(calls) : calls[i].path \in SeqCopies
        /\ calls[Len(calls)].status = "running" => SeqCopies \subseteq files

\* C18 as stated: main launches only workspace copies, and only when both
\* installer files are next to the script; when one is missing main returns 1
\* and has launched nothing.
C18_Original ==
    prog \in SequencerProgs =>
        /\ LaunchesOnlyStagedCopies
        /\ (Terminal /\ ~(SeqOriginals \subseteq files)) => (calls = << >> /\ ret = "1")

\* C18 (amended): main launches only workspace copies, and only when both
\* installer files are next to the script; when one is missing main has
\* launched nothing when it ends, and it returns 1 unless create_temp_dir
\* raised before the checks were reached.
C18_NoLaunchUnlessBothStaged ==
    prog \in SequencerProgs =>
        /\ LaunchesOnlyStagedCopies
        /\ (Terminal /\ ~(SeqOriginals \subseteq files)) =>
               /\ calls = << >>
               /\ \/ ret = "1"
                  \/ ret = "raised" /\ "mkdtemp" \in raisedAt /\ ws[SeqWsName] = "absent"

C18_Witness ==
    /\ prog = "silent_installer"
    /\ PathOf("script", APP_NAME) \in files
    /\ PathOf("script", SDK_NAME) \notin files
    /\ ws[SeqWsName] = "removed"
    /\ ret = "1"
    /\ calls = << >>

\* the application installers in the directory the previous run chose from,
\* the previous run's own output left aside
OriginalsBesidePrevious ==
    {f \in files : /\ ParentOf(f) = ParentOf(hist.scrm_path)
                   /\ GlobMatch(SCRM_GLOB, NameOf(f))
                   /\ f # hist.output_path}

\* C19: when create_bundled_installer.main is run again without explicit
\* paths after a successful run, in a directory with one application
\* installer, find_installers selects the installer the first run selected,
\* not the first run's artifact, and the derived output path is the same.
C19_RerunStable ==
    (/\ prog = "bundler"
     /\ hist.run >= 2
     /\ pc \in {"PyStart", "NsisStart"}
     /\ OriginalsBesidePrevious = {hist.scrm_path}) =>
        /\ loc.scrm_path # hist.output_path
        /\ loc.scrm_path = hist.scrm_path
        /\ loc.output_path = hist.output_path

\* main passed both None checks and called create_python_bundler
PythonBundlerCalled ==
    /\ prog = "bundler"
    /\ ~args.nsis
    /\ loc.scrm_path # None
    /\ loc.sdk_path # None
    /\ pc \notin {"Start", "PyStart"}

\* C20: create_python_bundler is all-or-nothing on the output path: when the
\* call has ended without returning the output path, it has written nothing
\* to that path (it has neither created nor truncated the file).
C20_AllOrNothing ==
    (PythonBundlerCalled /\ Terminal /\ loc.result = None) =>
        outParts = << >>

====
